---- MODULE Spec2Model ----
(***************************************************************************)
(* The NFA engine of src/src/automaton/nfa.rs: the per-automaton           *)
(* reservation table, the move table, the eagerly maintained epsilon       *)
(* chains and the simulation loop.                                         *)
(*                                                                         *)
(* An NFA value is a record with the fields of `struct NFA`.  HashMaps are *)
(* functions whose DOMAIN is the key set, HashSets are sets, the Vec<bool> *)
(* reservation table is a function over its indices.  The tuple            *)
(* (forward, back) of epsilon_chain is <<forward, back>>, so Rust's .0 is  *)
(* [1] and .1 is [2].                                                      *)
(***************************************************************************)
EXTENDS Integers, Sequences, FiniteSets, TLC

\* const NODE_LIMIT: usize = 1000, scaled down to keep the state space finite.
NODE_LIMIT == 3

\* Most loop iterations of one set_chain call that are followed.
MaxIters == 4

\* Longest target string handed to simulate.
MaxLen == 2

\* Most transitions a move table holds when simulation is explored.
MaxEdges == 3

\* Most transitions a move table holds when field writes are explored.
MaxFieldEdges == 1

\* Most transitions a move table holds when all operations are explored.
MaxOpsEdges == 1

\* The two NFA values a caller holds (test_merge builds two at a time).
Autos == {"nfa_a", "nfa_b"}

\* The epsilon marker of set_chain ("ε = '@'").
EPSILON == "@"

\* i32 state arguments tried by callers: every index of the table, one below
\* it and one at the capacity.
Ids == (0 - 1)..NODE_LIMIT

\* The indices of the reservation table.
Slots == 0..(NODE_LIMIT - 1)

VARIABLES
    nfa,            \* nfa[x]: the NFA value bound to x
    live,           \* live[x]: x is bound (not moved into a call and dropped)
    pc,             \* "idle", "walk" (inside set_chain's loop) or "panicked"
    b_state_stack,  \* set_chain's local stack
    f_states,       \* set_chain's local f_states
    walk_iters,     \* iterations of set_chain's loop made by the current call
    call,           \* the last call started
    ret             \* what the last call returned

vars == <<nfa, live, pc, b_state_stack, f_states, walk_iters, call, ret>>

----------------------------------------------------------------------------
(* HashMap and Vec helpers *)

\* HashMap::new()
EmptyMap == << >>

\* HashMap::insert(k, v)
MapInsert(m, k, v) == [x \in (DOMAIN m) \cup {k} |-> IF x = k THEN v ELSE m[x]]

\* All iteration orders a HashSet can produce.
Orders(S) ==
    {q \in [1..Cardinality(S) -> S] : \A i, j \in 1..Cardinality(S) : q[i] = q[j] => i = j}

\* `state as usize` indexes the Vec inside its bounds (a negative i32 casts to
\* an index far above the length).
InBounds(state) == 0 <= state /\ state < NODE_LIMIT

----------------------------------------------------------------------------
(* Functions without self *)

\* The struct literal of NFA::new.
StructInit(state_f, state_t) ==
    [ start          |-> state_f,
      finish         |-> state_t,
      move_table     |-> EmptyMap,
      epsilon_chain  |-> EmptyMap,
      reserved_state |-> [s \in Slots |-> FALSE] ]

\* fn check_state
check_state(n, state) ==
    IF 0 <= state /\ state < NODE_LIMIT THEN n.reserved_state[state] ELSE FALSE

\* slot_taken reading one table shared by every live NFA instead of the NFA's
\* own.
slot_taken_shared(n, state) ==
    n.reserved_state[state] \/ \E y \in Autos : live[y] /\ nfa[y].reserved_state[state]

\* The test of reserve's loop body: is the slot taken in this NFA's own table.
slot_taken(n, state) == n.reserved_state[state]

\* reserve_one without the epsilon_chain entry.
reserve_one_no_chain(n, state) ==
    [n EXCEPT !.reserved_state[state] = TRUE,
              !.move_table = MapInsert(@, state, EmptyMap)]

\* The three writes of reserve's loop body.
reserve_one(n, state) ==
    [n EXCEPT !.reserved_state[state] = TRUE,
              !.move_table = MapInsert(@, state, EmptyMap),
              !.epsilon_chain = MapInsert(@, state, <<{}, {}>>)]

\* fn reserve: the loop over state_f..=state_t, from `state` on.  The result is
\* the NFA as the loop left it and "Ok", "AlreadyReservedState" or "panic"
\* (index out of bounds).
RECURSIVE reserve_loop(_, _, _)
reserve_loop(n, state, state_t) ==
    IF state > state_t THEN [nfa |-> n, res |-> "Ok"]
    ELSE IF ~InBounds(state) THEN [nfa |-> n, res |-> "panic"]
    ELSE IF slot_taken(n, state) THEN [nfa |-> n, res |-> "AlreadyReservedState"]
    ELSE reserve_loop(reserve_one(n, state), state + 1, state_t)

\* reserve in two phases: an Err hands the tables back as they came in.
reserve_atomic(n, state_f, state_t) ==
    LET r == reserve_loop(n, state_f, state_t)
    IN  IF r.res = "AlreadyReservedState" THEN [nfa |-> n, res |-> r.res] ELSE r

reserve(n, state_f, state_t) == reserve_loop(n, state_f, state_t)

\* fn new: reserve on a fresh struct, then .ok().unwrap() (an Err panics).
new(state_f, state_t) ==
    LET r == reserve(StructInit(state_f, state_t), state_f, state_t)
    IN  IF r.res = "Ok" THEN r ELSE [nfa |-> r.nfa, res |-> "panic"]

\* fn merge: the loop over 0..NODE_LIMIT from `state` on, with reserve_s_f, and
\* the reservation of a range that runs to the end of the table.
RECURSIVE merge_loop(_, _, _, _)
merge_loop(na, nb, state, reserve_s_f) ==
    IF state >= NODE_LIMIT
    THEN IF reserve_s_f > 0
         THEN reserve(na, reserve_s_f, NODE_LIMIT - 1)
         ELSE [nfa |-> na, res |-> "Ok"]
    ELSE IF check_state(nb, state) /\ reserve_s_f < 0
    THEN merge_loop(na, nb, state + 1, state)
    ELSE IF ~check_state(nb, state) /\ reserve_s_f > 0
    THEN LET r == reserve(na, reserve_s_f, state - 1)
         IN  IF r.res = "Ok" THEN merge_loop(r.nfa, nb, state + 1, 0 - 1) ELSE r
    ELSE merge_loop(na, nb, state + 1, reserve_s_f)

merge(na, nb) == merge_loop(na, nb, 0, 0 - 1)

----------------------------------------------------------------------------
(* Methods *)

\* both_reserved checking state_a only.
both_reserved_first_only(n, state_a, state_b) == check_state(n, state_a)

\* both_reserved with || for &&.
both_reserved_either(n, state_a, state_b) == check_state(n, state_a) \/ check_state(n, state_b)

\* set_chain's entry check: both states pass check_state.
both_reserved(n, state_a, state_b) == check_state(n, state_a) /\ check_state(n, state_b)

\* set_chain indexes move_table[&state_a] and unwraps the epsilon_chain entries
\* of state_a and state_b: a missing key panics.
set_chain_panics(n, state_a, state_b, c) ==
    \/ state_a \notin DOMAIN n.move_table
    \/ /\ c = EPSILON
       /\ \/ state_a \notin DOMAIN n.epsilon_chain
          \/ state_b \notin DOMAIN n.epsilon_chain

\* move_insert that overwrites the entry of c with state_b alone.
move_insert_replace(mt, state_a, state_b, c) ==
    [mt EXCEPT ![state_a] = MapInsert(@, c, {state_b})]

\* move_insert with the insert in the wrong branch: a fresh entry of c is
\* created empty, and state_b goes in only when the entry was there already.
move_insert_else(mt, state_a, state_b, c) ==
    IF c \in DOMAIN mt[state_a]
    THEN [mt EXCEPT ![state_a] = MapInsert(@, c, @[c] \cup {state_b})]
    ELSE [mt EXCEPT ![state_a] = MapInsert(@, c, {})]

\* set_chain, "遷移表更新": create the entry of c if absent, insert state_b.
move_insert(mt, state_a, state_b, c) ==
    LET row == IF c \in DOMAIN mt[state_a] THEN mt[state_a]
               ELSE MapInsert(mt[state_a], c, {})
    IN  [mt EXCEPT ![state_a] = MapInsert(row, c, row[c] \cup {state_b})]

\* epsilon_link that also hands state_b the back set of state_a.
epsilon_link_back_closed(ec, state_a, state_b) ==
    LET e1 == [ec EXCEPT ![state_a] = <<@[1] \cup {state_b}, @[2]>>]
    IN  [e1 EXCEPT ![state_b] = <<@[1], @[2] \cup {state_a} \cup ec[state_a][2]>>]

\* set_chain, the two direct inserts: b into a's forward set, a into b's back set.
epsilon_link(ec, state_a, state_b) ==
    LET e1 == [ec EXCEPT ![state_a] = <<@[1] \cup {state_b}, @[2]>>]
    IN  [e1 EXCEPT ![state_b] = <<@[1], @[2] \cup {state_a}>>]

\* init_f_states without the forward set of the target state_b.
init_f_states_no_target(ec, state_a, state_b) == ec[state_a][1]

\* set_chain, f_states: the forward sets of a and of b.
init_f_states(ec, state_a, state_b) == ec[state_a][1] \cup ec[state_b][1]

\* set_chain, one loop iteration on the popped state: its forward set takes
\* f_states.
walk_extend(ec, state, fs) == [ec EXCEPT ![state] = <<@[1] \cup fs, @[2]>>]

\* walk_push appending nothing: the walk stops at state_a.
walk_push_none(ec, state) == {<< >>}

\* set_chain, one loop iteration: what is appended to the stack.
walk_push(ec, state) == Orders(ec[state][2])

\* get_closure that follows the '@' entry as well as the entry of c.
get_closure_eps_too(n, state, c) ==
    IF check_state(n, state)
    THEN (IF c \in DOMAIN n.move_table[state] THEN n.move_table[state][c] ELSE {})
            \cup (IF EPSILON \in DOMAIN n.move_table[state]
                  THEN n.move_table[state][EPSILON] ELSE {})
    ELSE {}

\* fn get_closure
get_closure(n, state, c) ==
    IF check_state(n, state)
    THEN IF c \in DOMAIN n.move_table[state] THEN n.move_table[state][c] ELSE {}
    ELSE {}

\* fn get_epsilon_closure
get_epsilon_closure(n, states) ==
    UNION {n.epsilon_chain[s][1] : s \in {x \in states : check_state(n, x)}}

\* simulate, one iteration of the loop: new_states from old_states and c.
sim_step(n, old_states, c) ==
    UNION {get_closure(n, s, c) : s \in old_states}
        \cup get_epsilon_closure(n, old_states)

\* sim_init without the start state itself.
sim_init_no_start(n) == n.epsilon_chain[n.start][1]

\* simulate, old_states before the loop.
sim_init(n) == {n.start} \cup n.epsilon_chain[n.start][1]

\* simulate, old_states after the first k characters of target.
RECURSIVE sim_states(_, _, _)
sim_states(n, target, k) ==
    IF k = 0 THEN sim_init(n)
    ELSE sim_step(n, sim_states(n, target, k - 1), target[k])

\* fn simulate: "true", "false", or "panic" when epsilon_chain has no entry
\* for start (HashMap's Index panics on a missing key).
simulate(n, target) ==
    IF n.start \notin DOMAIN n.epsilon_chain THEN "panic"
    ELSE IF n.finish \in sim_states(n, target, Len(target)) THEN "true"
    ELSE "false"

----------------------------------------------------------------------------
(* The calls a caller makes.  Every call needs pc = "idle": the program is  *)
(* single-threaded and a call runs to its end before the next one starts.   *)

\* A name that held no NFA yet.
Unbound == StructInit(0, 0)

\* A panic (an index out of bounds, an unwrap of None, a missing HashMap key)
\* ends the program: every NFA is gone and no call follows.
Panic ==
    /\ pc' = "panicked"
    /\ ret' = "panic"
    /\ nfa' = [x \in Autos |-> Unbound]
    /\ live' = [x \in Autos |-> FALSE]
    /\ b_state_stack' = << >>
    /\ f_states' = {}
    /\ walk_iters' = 0

\* let x = NFA::new(state_f, state_t)
NewCall(x, state_f, state_t) ==
    /\ pc = "idle"
    /\ ~live[x]
    /\ call' = [op |-> "new", who |-> x, state_f |-> state_f, state_t |-> state_t]
    /\ LET r == new(state_f, state_t)
       IN  IF r.res = "Ok"
           THEN /\ nfa' = [nfa EXCEPT ![x] = r.nfa]
                /\ live' = [live EXCEPT ![x] = TRUE]
                /\ pc' = "idle"
                /\ ret' = "Ok"
                /\ UNCHANGED <<b_state_stack, f_states, walk_iters>>
           ELSE Panic

\* NFA::reserve(x, state_f, state_t): x is moved into the call; Ok hands the
\* NFA back, Err drops it (nfa[x] then shows the value as it was dropped).
ReserveCall(x, state_f, state_t) ==
    /\ pc = "idle"
    /\ live[x]
    /\ call' = [op |-> "reserve", who |-> x, state_f |-> state_f, state_t |-> state_t]
    /\ LET r == reserve(nfa[x], state_f, state_t)
       IN  IF r.res = "panic" THEN Panic
           ELSE /\ ret' = r.res
                /\ nfa' = [nfa EXCEPT ![x] = r.nfa]
                /\ live' = [live EXCEPT ![x] = (r.res = "Ok")]
                /\ UNCHANGED <<pc, b_state_stack, f_states, walk_iters>>

\* NFA::merge(x, y, _, _): both are moved into the call; Ok hands back nfa_a,
\* rebound to x.  merge_state_a and merge_state_b are never read.
MergeCall(x, y) ==
    /\ pc = "idle"
    /\ x # y
    /\ live[x]
    /\ live[y]
    /\ call' = [op |-> "merge", who |-> x, other |-> y]
    /\ LET r == merge(nfa[x], nfa[y])
       IN  IF r.res = "panic" THEN Panic
           ELSE /\ ret' = r.res
                /\ nfa' = [nfa EXCEPT ![x] = r.nfa]
                /\ live' = [live EXCEPT ![x] = (r.res = "Ok"), ![y] = FALSE]
                /\ UNCHANGED <<pc, b_state_stack, f_states, walk_iters>>

\* The caller makes the call it made last, and that one returned Ok (the
\* calls of one loop body run twice over the same chain).
Repeats(x, state_a, state_b, c) ==
    /\ ret = "Ok"
    /\ call.op = "set_chain"
    /\ call.who = x
    /\ call.state_a = state_a
    /\ call.state_b = state_b
    /\ call.c = c

\* x.set_chain(state_a, state_b, c) up to the loop: the check, the move table,
\* and for '@' the direct inserts and the locals of the walk.
SetChainCall(x, state_a, state_b, c) ==
    /\ pc = "idle"
    /\ live[x]
    /\ call' = [op |-> "set_chain", who |-> x, state_a |-> state_a,
                state_b |-> state_b, c |-> c,
                again |-> Repeats(x, state_a, state_b, c)]
    /\ IF ~both_reserved(nfa[x], state_a, state_b)
       THEN /\ ret' = "NonReservedState"
            /\ UNCHANGED <<nfa, live, pc, b_state_stack, f_states, walk_iters>>
       ELSE IF set_chain_panics(nfa[x], state_a, state_b, c)
       THEN Panic
       ELSE LET mt == move_insert(nfa[x].move_table, state_a, state_b, c)
            IN  IF c = EPSILON
                THEN LET ec == epsilon_link(nfa[x].epsilon_chain, state_a, state_b)
                     IN  /\ nfa' = [nfa EXCEPT ![x].move_table = mt,
                                               ![x].epsilon_chain = ec]
                         /\ b_state_stack' = <<state_a>>
                         /\ f_states' = init_f_states(ec, state_a, state_b)
                         /\ walk_iters' = 0
                         /\ pc' = "walk"
                         /\ ret' = "running"
                         /\ UNCHANGED live
                ELSE /\ nfa' = [nfa EXCEPT ![x].move_table = mt]
                     /\ ret' = "Ok"
                     /\ UNCHANGED <<live, pc, b_state_stack, f_states, walk_iters>>

\* One iteration of set_chain's loop with a non-empty stack: pop, extend the
\* popped state's forward set, push its back set.
WalkStep ==
    /\ pc = "walk"
    /\ Len(b_state_stack) > 0
    /\ walk_iters < MaxIters
    /\ LET x     == call.who
           state == b_state_stack[Len(b_state_stack)]
           rest  == SubSeq(b_state_stack, 1, Len(b_state_stack) - 1)
       IN  /\ \E b_states \in walk_push(nfa[x].epsilon_chain, state) :
                  b_state_stack' = rest \o b_states
           /\ nfa' = [nfa EXCEPT ![x].epsilon_chain = walk_extend(@, state, f_states)]
    /\ walk_iters' = walk_iters + 1
    /\ UNCHANGED <<live, pc, f_states, call, ret>>

\* The loop's exit on an empty stack, and Ok(()).
WalkReturn ==
    /\ pc = "walk"
    /\ Len(b_state_stack) = 0
    /\ pc' = "idle"
    /\ ret' = "Ok"
    /\ b_state_stack' = << >>
    /\ f_states' = {}
    /\ walk_iters' = 0
    /\ UNCHANGED <<nfa, live, call>>

\* x.simulate(target)
SimulateCall(x, target) ==
    /\ pc = "idle"
    /\ live[x]
    /\ call' = [op |-> "simulate", who |-> x, target |-> target]
    /\ LET r == simulate(nfa[x], target)
       IN  IF r = "panic" THEN Panic
           ELSE /\ ret' = r
                /\ UNCHANGED <<nfa, live, pc, b_state_stack, f_states, walk_iters>>

\* x.start = v: start and finish are pub fields, the caller may assign them.
WriteStart(x, v) ==
    /\ pc = "idle"
    /\ live[x]
    /\ call' = [op |-> "write", who |-> x, field |-> "start"]
    /\ ret' = "none"
    /\ nfa' = [nfa EXCEPT ![x].start = v]
    /\ UNCHANGED <<live, pc, b_state_stack, f_states, walk_iters>>

\* x.finish = v
WriteFinish(x, v) ==
    /\ pc = "idle"
    /\ live[x]
    /\ call' = [op |-> "write", who |-> x, field |-> "finish"]
    /\ ret' = "none"
    /\ nfa' = [nfa EXCEPT ![x].finish = v]
    /\ UNCHANGED <<live, pc, b_state_stack, f_states, walk_iters>>

----------------------------------------------------------------------------
(* Specifications *)

\* Strings over cs of length at most n.
Strings(cs, n) == UNION {[1..k -> cs] : k \in 0..n}

NoCall == [op |-> "none"]

InitLocals ==
    /\ pc = "idle"
    /\ b_state_stack = << >>
    /\ f_states = {}
    /\ walk_iters = 0
    /\ call = NoCall
    /\ ret = "none"

\* Epsilon insertion: two NFAs built by NFA::new(0, NODE_LIMIT-1), as in
\* test_epsilon_chain, each taking set_chain(_, _, '@') calls in any order.
InitEps ==
    /\ nfa = [x \in Autos |-> new(0, NODE_LIMIT - 1).nfa]
    /\ live = [x \in Autos |-> TRUE]
    /\ InitLocals

NextEps ==
    \/ \E x \in Autos, a \in Slots, b \in Slots : SetChainCall(x, a, b, EPSILON)
    \/ WalkStep
    \/ WalkReturn

SpecEps == InitEps /\ [][NextEps]_vars

\* Simulation: one NFA, built by NFA::new with any i32 range ends around the
\* table, takes
\* set_chain calls with a label or '@' between any two i32 arguments, and
\* simulate calls on short strings.
InitSim ==
    /\ nfa = [x \in Autos |-> Unbound]
    /\ live = [x \in Autos |-> FALSE]
    /\ InitLocals

SimLabels == {"a", EPSILON}

\* The number of (state, character, destination) triples in the move table.
RECURSIVE SumOver(_, _)
SumOver(f, S) ==
    IF S = {} THEN 0
    ELSE LET k == CHOOSE k \in S : TRUE IN f[k] + SumOver(f, S \ {k})

EdgeCount(n) ==
    LET perState == [s \in DOMAIN n.move_table |->
                        SumOver([c \in DOMAIN n.move_table[s] |->
                                    Cardinality(n.move_table[s][c])],
                                DOMAIN n.move_table[s])]
    IN  SumOver(perState, DOMAIN n.move_table)

SimTargets == Strings({"a", "b"}, MaxLen)

NextSim ==
    \/ \E f \in Ids, t \in Ids : NewCall("nfa_a", f, t)
    \/ \E a \in Ids, b \in Ids, c \in SimLabels :
          /\ EdgeCount(nfa["nfa_a"]) < MaxEdges
          /\ SetChainCall("nfa_a", a, b, c)
    \/ WalkStep
    \/ WalkReturn
    \/ \E target \in SimTargets : SimulateCall("nfa_a", target)

SpecSim == InitSim /\ [][NextSim]_vars

\* Reservation: no NFA is bound at first; the caller builds up to two with
\* NFA::new, extends them with NFA::reserve and merges them, with any range
\* ends inside the table (state_f > state_t included).
InitRes ==
    /\ nfa = [x \in Autos |-> Unbound]
    /\ live = [x \in Autos |-> FALSE]
    /\ InitLocals

NextRes ==
    \/ \E x \in Autos, f \in Slots, t \in Slots : NewCall(x, f, t)
    \/ \E x \in Autos, f \in Slots, t \in Slots : ReserveCall(x, f, t)
    \/ \E x \in Autos, y \in Autos : MergeCall(x, y)

SpecRes == InitRes /\ [][NextRes]_vars

\* Field writes: one NFA built by NFA::new on a range inside the table, whose
\* start and finish the caller overwrites with any i32 around the table,
\* between set_chain and simulate calls.
InitFields ==
    /\ nfa = [x \in Autos |-> Unbound]
    /\ live = [x \in Autos |-> FALSE]
    /\ InitLocals

NextFields ==
    \/ \E f \in Slots, t \in Slots : f <= t /\ NewCall("nfa_a", f, t)
    \/ \E v \in Ids : WriteStart("nfa_a", v)
    \/ \E v \in Ids : WriteFinish("nfa_a", v)
    \/ \E a \in Slots, b \in Slots, c \in SimLabels :
          /\ EdgeCount(nfa["nfa_a"]) < MaxFieldEdges
          /\ SetChainCall("nfa_a", a, b, c)
    \/ WalkStep
    \/ WalkReturn
    \/ \E target \in SimTargets : SimulateCall("nfa_a", target)

SpecFields == InitFields /\ [][NextFields]_vars

\* Range ends: the caller builds one NFA with NFA::new and extends it with
\* NFA::reserve, with any i32 range ends around the table.
InitRange ==
    /\ nfa = [x \in Autos |-> Unbound]
    /\ live = [x \in Autos |-> FALSE]
    /\ InitLocals

NextRange ==
    \/ \E f \in Ids, t \in Ids : NewCall("nfa_a", f, t)
    \/ \E f \in Ids, t \in Ids : ReserveCall("nfa_a", f, t)

SpecRange == InitRange /\ [][NextRange]_vars

\* All operations that build an NFA, as in test_merge: nfa_a is made by
\* NFA::new, extended by NFA::reserve and given transitions by set_chain
\* (calls on unreserved states included); nfa_b is made by NFA::new and
\* merged into nfa_a.  All arguments are inside the table.
InitOps ==
    /\ nfa = [x \in Autos |-> Unbound]
    /\ live = [x \in Autos |-> FALSE]
    /\ InitLocals

NextOps ==
    \/ \E x \in Autos, f \in Slots, t \in Slots : f <= t /\ NewCall(x, f, t)
    \/ \E f \in Slots, t \in Slots : f <= t /\ ReserveCall("nfa_a", f, t)
    \/ MergeCall("nfa_a", "nfa_b")
    \/ \E a \in Slots, b \in Slots, c \in SimLabels :
          /\ EdgeCount(nfa["nfa_a"]) < MaxOpsEdges
          /\ SetChainCall("nfa_a", a, b, c)
    \/ WalkStep
    \/ WalkReturn

SpecOps == InitOps /\ [][NextOps]_vars

----------------------------------------------------------------------------
(* Reference notions the properties are stated with *)

\* The epsilon edges inserted so far: the '@' entries of the move table.
EpsEdges(n) ==
    {e \in Slots \X Slots :
        /\ e[1] \in DOMAIN n.move_table
        /\ EPSILON \in DOMAIN n.move_table[e[1]]
        /\ e[2] \in n.move_table[e[1]][EPSILON]}

\* Pairs joined by a path of one or two edges of R.
Compose(R) ==
    R \cup {e \in Slots \X Slots : \E m \in Slots : <<e[1], m>> \in R /\ <<m, e[2]>> \in R}

\* Pairs joined by a path of one or more edges of R.
RECURSIVE PathsUpTo(_, _)
PathsUpTo(R, k) == IF k = 0 THEN R ELSE PathsUpTo(Compose(R), k - 1)

EpsPaths(n) == PathsUpTo(EpsEdges(n), NODE_LIMIT)

Forward(n, s) == n.epsilon_chain[s][1]

Back(n, s) == n.epsilon_chain[s][2]

Reserved(n) == {s \in Slots : n.reserved_state[s]}

----------------------------------------------------------------------------
(* Properties *)

\* C2: whenever set_chain has returned (the program is between calls), for
\* all reserved p and q of every NFA, q is in epsilon_forward[p] exactly when
\* a path of one or more inserted epsilon edges leads from p to q.
C2_ForwardIsClosure ==
    pc = "idle" =>
        \A x \in Autos : live[x] =>
            \A p \in Reserved(nfa[x]), q \in Reserved(nfa[x]) :
                q \in Forward(nfa[x], p) <=> <<p, q>> \in EpsPaths(nfa[x])

\* C2's case: a returned set_chain left a state in a forward set that is
\* no direct epsilon successor (it got there by propagation).
C2_Witness ==
    /\ pc = "idle"
    /\ ret = "Ok"
    /\ call.op = "set_chain"
    /\ \E p \in Slots, q \in Slots :
          /\ q \in Forward(nfa[call.who], p)
          /\ <<p, q>> \notin EpsEdges(nfa[call.who])

\* C3: every set_chain call terminates, its walk bounded by the number of
\* reserved states: no call makes more loop iterations than the NFA has
\* reserved states.  (With NODE_LIMIT = 3 a walk that returns makes at most
\* two iterations; a run that passes the bound is one whose stack and tables
\* repeat from one iteration to the next.)
C3_WalkBounded ==
    pc = "walk" => walk_iters <= Cardinality(Reserved(nfa[call.who]))

\* C4: two NFAs that were given the same set of epsilon edges, in whatever
\* orders, have identical epsilon_forward sets for every state.
C4_OrderIndependent ==
    (pc = "idle" /\ EpsEdges(nfa["nfa_a"]) = EpsEdges(nfa["nfa_b"])) =>
        \A s \in Slots : Forward(nfa["nfa_a"], s) = Forward(nfa["nfa_b"], s)

\* C4's case: both NFAs hold the chain 0 -> 1 -> 2, and nfa_b got 0 -> 1 last,
\* after 1 -> 2 (nfa_a is reached with either order).
C4_Witness ==
    /\ pc = "idle"
    /\ ret = "Ok"
    /\ call = [op |-> "set_chain", who |-> "nfa_b", state_a |-> 0, state_b |-> 1,
               c |-> EPSILON, again |-> FALSE]
    /\ EpsEdges(nfa["nfa_a"]) = {<<0, 1>>, <<1, 2>>}
    /\ EpsEdges(nfa["nfa_b"]) = {<<0, 1>>, <<1, 2>>}
    /\ 2 \in Forward(nfa["nfa_b"], 0)

\* C15 as stated: between calls, the back set of every reserved state s holds
\* all states from which a path of one or more epsilon edges leads to s.
C15_BackIsAncestors ==
    pc = "idle" =>
        \A x \in Autos : live[x] =>
            \A s \in Reserved(nfa[x]) :
                Back(nfa[x], s) = {p \in Slots : <<p, s>> \in EpsPaths(nfa[x])}

\* C15 amended: between calls, the back set of every reserved state s holds
\* exactly the direct epsilon predecessors of s, the states p for which
\* set_chain(p, s, '@') was called.
C15_BackIsDirect ==
    pc = "idle" =>
        \A x \in Autos : live[x] =>
            \A s \in Reserved(nfa[x]) :
                Back(nfa[x], s) = {p \in Slots : <<p, s>> \in EpsEdges(nfa[x])}

\* C15's case: a returned set_chain left a state with an epsilon ancestor
\* that is no direct predecessor.
C15_Witness ==
    /\ pc = "idle"
    /\ ret = "Ok"
    /\ call.op = "set_chain"
    /\ \E p \in Slots, s \in Slots :
          /\ <<p, s>> \in EpsPaths(nfa[call.who])
          /\ <<p, s>> \notin EpsEdges(nfa[call.who])
          /\ Back(nfa[call.who], s) # {}

----------------------------------------------------------------------------
(* Simulation properties *)

\* The destinations of one c move from a state of S, read off the move table.
Stepped(n, S, c) ==
    {d \in Slots : \E q \in S :
        /\ q \in DOMAIN n.move_table
        /\ c \in DOMAIN n.move_table[q]
        /\ d \in n.move_table[q][c]}

\* The union of the forward sets of the reserved states of S.
ClosureOf(n, S) ==
    {d \in Slots : \E q \in S : q \in Reserved(n) /\ d \in Forward(n, q)}

\* The active set of the subset run after the first k characters: the
\* stepped set united with the closure of the stepped set.
RECURSIVE ActiveSet(_, _, _)
ActiveSet(n, target, k) ==
    IF k = 0 THEN {n.start} \cup Forward(n, n.start)
    ELSE LET S == Stepped(n, ActiveSet(n, target, k - 1), target[k])
         IN  S \cup ClosureOf(n, S)

Returned(op) == pc = "idle" /\ call.op = op

\* C1: simulate returns whether finish is in the final active set of the
\* subset run, whose every step closes the stepped set (not the previous
\* active set) under epsilon moves.
C1_SimulateIsSubsetRun ==
    (Returned("simulate") /\ ret \in {"true", "false"}) =>
        (ret = "true" <=>
            nfa[call.who].finish
                \in ActiveSet(nfa[call.who], call.target, Len(call.target)))

\* C10: if at some character of the input no active state has a move on it,
\* the active set becomes empty there and simulate returns false.
C10_EmptyStepRejects ==
    (Returned("simulate") /\ ret \in {"true", "false"}) =>
        \A k \in 1..Len(call.target) :
            Stepped(nfa[call.who], sim_states(nfa[call.who], call.target, k - 1),
                    call.target[k]) = {}
            => /\ sim_states(nfa[call.who], call.target, k) = {}
               /\ ret = "false"

\* C12: on the empty input, simulate of an NFA whose start is reserved returns
\* a boolean, and returns true exactly when finish is start or finish is in
\* the forward set of start.
C12_EmptyInput ==
    (/\ Returned("simulate")
     /\ Len(call.target) = 0
     /\ nfa[call.who].start \in Reserved(nfa[call.who])) =>
        /\ ret \in {"true", "false"}
        /\ ret = "true" <=>
              \/ nfa[call.who].finish = nfa[call.who].start
              \/ nfa[call.who].finish \in Forward(nfa[call.who], nfa[call.who].start)

\* C12's case: the empty input was accepted by an NFA whose finish is not its
\* start, reached only through a chain of two epsilon edges.
C12_Witness ==
    /\ Returned("simulate")
    /\ Len(call.target) = 0
    /\ ret = "true"
    /\ nfa[call.who].start \in Reserved(nfa[call.who])
    /\ nfa[call.who].finish # nfa[call.who].start
    /\ <<nfa[call.who].start, nfa[call.who].finish>> \notin EpsEdges(nfa[call.who])

\* C13: simulate never ends abruptly: whatever the caller wrote to start and
\* finish (identifiers not reserved or outside the table included), a
\* simulate call returns a boolean.
C13_SimulateNeverAborts ==
    [][(call'.op = "simulate") => ret' \in {"true", "false"}]_vars

----------------------------------------------------------------------------
(* set_chain's failure path *)

\* C6: a set_chain call with state_a or state_b outside the table or not
\* reserved returns NonReservedState and leaves every table as it was.
C6_RejectsUnreserved ==
    [][(pc = "idle" /\ call'.op = "set_chain"
          /\ ~(call'.state_a \in Reserved(nfa[call'.who])
                 /\ call'.state_b \in Reserved(nfa[call'.who])))
        => (ret' = "NonReservedState" /\ nfa' = nfa /\ pc' = "idle")]_vars

\* C6's case: a call on an NFA that holds transitions was rejected for a state
\* inside the table that was never reserved.
C6_Witness ==
    /\ Returned("set_chain")
    /\ ret = "NonReservedState"
    /\ call.state_a \in Reserved(nfa[call.who])
    /\ call.state_b \in Slots \ Reserved(nfa[call.who])
    /\ EdgeCount(nfa[call.who]) > 0
    /\ EpsEdges(nfa[call.who]) # {}

----------------------------------------------------------------------------
(* Repeated and labelled insertions *)

\* C11: when the caller repeats the set_chain call that has just returned Ok
\* (the same NFA and the same state_a, state_b, c, a label or '@'), no step
\* of the second call changes anything in the NFA: the destination set of
\* (state_a, c) and every forward and back set stay what the first call left,
\* and the labelled call returns Ok.
C11_RepeatChangesNothing ==
    [][/\ (call'.op = "set_chain" /\ call'.again) =>
            /\ nfa' = nfa
            /\ ret' \in {"Ok", "running"}
       /\ (pc = "walk" /\ call.again) => nfa' = nfa]_vars

\* C11's case: a repeated '@' call has returned, on an NFA where state_a has
\* an epsilon predecessor (the walk had sets to extend).
C11_Witness ==
    /\ Returned("set_chain")
    /\ ret = "Ok"
    /\ call.again
    /\ call.c = EPSILON
    /\ nfa[call.who].epsilon_chain[call.state_a][2] # {}

\* C11's labelled case: the repeated call carried a label.
C11_WitnessLabel ==
    /\ Returned("set_chain")
    /\ ret = "Ok"
    /\ call.again
    /\ call.c # EPSILON

\* The characters get_closure is asked about: the labels in use, one that is
\* never inserted, and '@'.
QueryChars == SimLabels \cup {"b"}

\* This step is a set_chain call on x that passed the entry check.
Accepted(x) ==
    /\ pc = "idle"
    /\ call'.op = "set_chain"
    /\ call'.who = x
    /\ ret' \in {"Ok", "running"}

\* C19: get_closure(state, c) is the set of b for which set_chain(state, b, c)
\* was accepted: empty on a new NFA, grown by exactly state_b at (state_a, c)
\* by an accepted set_chain(state_a, state_b, c), and left alone everywhere
\* else and by every other step (rejected calls included); and it is empty,
\* without failing, for every state that is not reserved, negative ones and
\* ones past the table included.
C19_ClosureTracksInserts ==
    [][\A x \in Autos : live'[x] =>
          \A s \in Ids, c \in QueryChars :
              get_closure(nfa'[x], s, c) =
                  IF s \notin Reserved(nfa'[x]) THEN {}
                  ELSE IF call'.op = "new" /\ call'.who = x THEN {}
                  ELSE IF Accepted(x) /\ s = call'.state_a /\ c = call'.c
                  THEN get_closure(nfa[x], s, c) \cup {call'.state_b}
                  ELSE get_closure(nfa[x], s, c)]_vars

\* C19's case: set_chain returned Ok and get_closure of its state_a and c
\* holds two states, while the NFA has an unreserved state inside the table.
C19_Witness ==
    /\ Returned("set_chain")
    /\ ret = "Ok"
    /\ Cardinality(get_closure(nfa[call.who], call.state_a, call.c)) >= 2
    /\ Stepped(nfa[call.who], {call.state_a}, call.c)
          = get_closure(nfa[call.who], call.state_a, call.c)
    /\ Slots \ Reserved(nfa[call.who]) # {}

\* The destination set of (s, c), read off the move table.
Dest(n, s, c) == Stepped(n, {s}, c)

\* The characters that have an entry at s before or after the step.
RowChars(x, s) ==
    (IF s \in DOMAIN nfa[x].move_table THEN DOMAIN nfa[x].move_table[s] ELSE {})
        \cup (IF s \in DOMAIN nfa'[x].move_table THEN DOMAIN nfa'[x].move_table[s] ELSE {})

\* C20: a set_chain(a, b, c) with a label c that returns Ok changes the
\* destination set of (a, c) only, adding b: epsilon_chain, the reservation
\* table, start, finish, every other destination set and the other NFA stay
\* as they were.  And no step of any operation takes a state out of a
\* destination set or a forward set of an NFA the caller holds.
C20_LabelledFrameAndGrowth ==
    [][/\ (pc = "idle" /\ call'.op = "set_chain" /\ ret' = "Ok"
                /\ call'.c # EPSILON) =>
            LET x == call'.who
            IN  /\ nfa'[x].epsilon_chain = nfa[x].epsilon_chain
                /\ nfa'[x].reserved_state = nfa[x].reserved_state
                /\ nfa'[x].start = nfa[x].start
                /\ nfa'[x].finish = nfa[x].finish
                /\ \A y \in Autos \ {x} : nfa'[y] = nfa[y]
                /\ DOMAIN nfa'[x].move_table = DOMAIN nfa[x].move_table
                /\ \A s \in Slots : \A c \in RowChars(x, s) :
                      Dest(nfa'[x], s, c) =
                          IF s = call'.state_a /\ c = call'.c
                          THEN Dest(nfa[x], s, c) \cup {call'.state_b}
                          ELSE Dest(nfa[x], s, c)
       /\ \A x \in Autos : (live[x] /\ live'[x]) =>
            \A s \in Reserved(nfa[x]) :
                /\ s \in Reserved(nfa'[x])
                /\ Forward(nfa[x], s) \subseteq Forward(nfa'[x], s)
                /\ \A c \in RowChars(x, s) :
                      Dest(nfa[x], s, c) \subseteq Dest(nfa'[x], s, c)]_vars

\* C20's case: a labelled set_chain returned Ok on an NFA that holds an
\* epsilon edge and a destination set of another state.
C20_Witness ==
    /\ Returned("set_chain")
    /\ ret = "Ok"
    /\ call.c # EPSILON
    /\ call.state_b \in Dest(nfa[call.who], call.state_a, call.c)
    /\ EpsEdges(nfa[call.who]) # {}
    /\ \E s \in Slots \ {call.state_a} : Dest(nfa[call.who], s, call.c) # {}

----------------------------------------------------------------------------
(* Properties over all operations *)

\* Every identifier the tables of n name: the keys of the move table and of
\* epsilon_chain, and the members of every destination, forward and back set.
Named(n) ==
    DOMAIN n.move_table
        \cup UNION {UNION {n.move_table[s][c] : c \in DOMAIN n.move_table[s]} :
                        s \in DOMAIN n.move_table}
        \cup DOMAIN n.epsilon_chain
        \cup UNION {n.epsilon_chain[s][1] \cup n.epsilon_chain[s][2] :
                        s \in DOMAIN n.epsilon_chain}

\* C16: in every state reached by new, reserve, set_chain (returning Ok or an
\* error) and merge, every identifier that is a key or a member of a set in
\* the move table or in epsilon_chain of an NFA is reserved by that NFA.
C16_NamedAreReserved ==
    \A x \in Autos : \A s \in Named(nfa[x]) :
        s \in Slots /\ nfa[x].reserved_state[s]

\* C16's case: after a merge that returned Ok, nfa_a holds a transition and
\* the identifiers it took over from nfa_b.
C16_Witness ==
    /\ Returned("merge")
    /\ ret = "Ok"
    /\ live["nfa_a"]
    /\ EdgeCount(nfa["nfa_a"]) > 0
    /\ Reserved(nfa["nfa_b"]) # {}
    /\ Reserved(nfa["nfa_b"]) \subseteq Reserved(nfa["nfa_a"])

----------------------------------------------------------------------------
(* Reservation properties *)

InTable(f, t) == 0 <= f /\ f <= t /\ t < NODE_LIMIT

Other(x) == CHOOSE y \in Autos : y # x

\* C5 as stated: no identifier is reserved by two live NFAs at once.
C5_NoSharedIdentifier ==
    \A s \in Slots :
        ~(/\ live["nfa_a"] /\ s \in Reserved(nfa["nfa_a"])
          /\ live["nfa_b"] /\ s \in Reserved(nfa["nfa_b"]))

\* C5 amended: new and reserve consult only the table of the NFA they act on.
\* They leave the other NFA as it is, AlreadyReservedState is returned only
\* when the range holds an identifier that NFA itself reserves, and NFA::new
\* on a range inside the table always succeeds, whatever the other NFA holds.
C5_OwnTableOnly ==
    [][(call'.op \in {"new", "reserve"}) =>
          /\ nfa'[Other(call'.who)] = nfa[Other(call'.who)]
          /\ live'[Other(call'.who)] = live[Other(call'.who)]
          /\ (ret' = "AlreadyReservedState" =>
                \E s \in call'.state_f..call'.state_t : s \in Reserved(nfa[call'.who]))
          /\ ((call'.op = "new" /\ InTable(call'.state_f, call'.state_t))
                => ret' = "Ok")]_vars

\* C5's case: NFA::new succeeded on a range that holds an identifier the other
\* live NFA reserves.
C5_Witness ==
    /\ Returned("new")
    /\ ret = "Ok"
    /\ live["nfa_a"]
    /\ live["nfa_b"]
    /\ \E s \in call.state_f..call.state_t :
          s \in Reserved(nfa["nfa_a"]) \cap Reserved(nfa["nfa_b"])

\* C7: for a range inside the table, reserve returns AlreadyReservedState if
\* the NFA already reserves an identifier of the range, and otherwise returns
\* Ok with every identifier of the range reserved and given an empty move
\* table entry and empty forward and back sets.
C7_ReserveContract ==
    [][(call'.op = "reserve" /\ InTable(call'.state_f, call'.state_t)) =>
          LET x == call'.who
              range == call'.state_f..call'.state_t
          IN  IF \E s \in range : s \in Reserved(nfa[x])
              THEN ret' = "AlreadyReservedState"
              ELSE /\ ret' = "Ok"
                   /\ live'[x]
                   /\ \A s \in range :
                         /\ s \in Reserved(nfa'[x])
                         /\ s \in DOMAIN nfa'[x].move_table
                         /\ nfa'[x].move_table[s] = EmptyMap
                         /\ s \in DOMAIN nfa'[x].epsilon_chain
                         /\ nfa'[x].epsilon_chain[s] = <<{}, {}>>]_vars

\* C7's case: reserve extended an NFA that already held other identifiers.
C7_Witness ==
    /\ Returned("reserve")
    /\ ret = "Ok"
    /\ InTable(call.state_f, call.state_t)
    /\ Reserved(nfa[call.who]) \ (call.state_f..call.state_t) # {}

\* C14: NFA::new and reserve called with a range end outside the table
\* (negative, or NODE_LIMIT and above) return an error, and never abort.
C14_OutOfRangeRejected ==
    [][(/\ call'.op \in {"new", "reserve"}
        /\ (call'.state_f \notin Slots \/ call'.state_t \notin Slots))
        => ret' \in {"AlreadyReservedState", "NonReservedState"}]_vars

\* A reserve call returns AlreadyReservedState in this step.
ReserveFailed == call'.op = "reserve" /\ ret' = "AlreadyReservedState"

\* The first identifier of the range that n already reserves.
FirstTaken(n, state_f, state_t) ==
    CHOOSE k \in state_f..state_t :
        k \in Reserved(n) /\ \A s \in state_f..(k - 1) : s \notin Reserved(n)

\* The NFA value a failing reserve leaves: the range holds an identifier k
\* already reserved, every identifier of [state_f, k-1] is now reserved with
\* empty entries, nothing else became reserved, and the entries of the states
\* reserved before are what they were.
PartialKept ==
    LET x == call'.who
        n == nfa[x]
        f == call'.state_f
        t == call'.state_t
    IN  /\ \E s \in f..t : s \in Reserved(n)
        /\ LET k == FirstTaken(n, f, t)
           IN  /\ Reserved(nfa'[x]) = Reserved(n) \cup (f..(k - 1))
               /\ \A s \in f..(k - 1) :
                     /\ nfa'[x].move_table[s] = EmptyMap
                     /\ nfa'[x].epsilon_chain[s] = <<{}, {}>>
               /\ \A s \in Reserved(n) :
                     /\ nfa'[x].move_table[s] = n.move_table[s]
                     /\ nfa'[x].epsilon_chain[s] = n.epsilon_chain[s]
               /\ nfa'[x].start = n.start
               /\ nfa'[x].finish = n.finish

\* C17 as stated: when reserve fails on an identifier k of the range, the
\* identifiers of [state_f, k-1] stay reserved in the NFA, and the NFA with
\* its earlier reservations and transitions is still held by the caller.
C17_StillAvailable ==
    [][ReserveFailed => (PartialKept /\ live'[call'.who])]_vars

\* C17 amended: when reserve fails on an identifier k of the range, the
\* identifiers of [state_f, k-1] have been reserved in the NFA value and are
\* not rolled back, its earlier reservations and transitions are untouched,
\* but the call took the NFA by value and returns only the error: the value
\* is dropped and the caller holds no NFA any more.
C17_PartialThenDropped ==
    [][ReserveFailed => (PartialKept /\ ~live'[call'.who])]_vars

\* C17's case: reserve failed on an NFA that holds a transition, and the first
\* identifier of the range is reserved with empty entries while the last one
\* is the source of the transition.
C17_Witness ==
    /\ Returned("reserve")
    /\ ret = "AlreadyReservedState"
    /\ ~live[call.who]
    /\ call.state_f < call.state_t
    /\ call.state_f \in Reserved(nfa[call.who])
    /\ call.state_t \in Reserved(nfa[call.who])
    /\ nfa[call.who].move_table[call.state_f] = EmptyMap
    /\ nfa[call.who].move_table[call.state_t] # EmptyMap

\* C8: merge returns Ok exactly when no identifier is reserved by both NFAs,
\* and AlreadyReservedState when one is.
C8_MergeOkIffDisjoint ==
    [][(call'.op = "merge") =>
          LET common == Reserved(nfa[call'.who]) \cap Reserved(nfa[call'.other])
          IN  /\ ret' = "Ok" <=> common = {}
              /\ common # {} => ret' = "AlreadyReservedState"]_vars

\* C18: after merge returned Ok, the returned NFA reserves exactly the
\* identifiers nfa_a or nfa_b reserved (identifier 0 and ranges that start at
\* 0 included), the entries of nfa_a's states are what they were, and the
\* states taken over from nfa_b have empty entries.
C18_MergeReservesUnion ==
    [][(call'.op = "merge" /\ ret' = "Ok") =>
          LET x == call'.who
              y == call'.other
          IN  /\ Reserved(nfa'[x]) = Reserved(nfa[x]) \cup Reserved(nfa[y])
              /\ \A s \in Reserved(nfa[x]) :
                    /\ nfa'[x].move_table[s] = nfa[x].move_table[s]
                    /\ nfa'[x].epsilon_chain[s] = nfa[x].epsilon_chain[s]
              /\ \A s \in Reserved(nfa'[x]) \ Reserved(nfa[x]) :
                    /\ nfa'[x].move_table[s] = EmptyMap
                    /\ nfa'[x].epsilon_chain[s] = <<{}, {}>>]_vars

\* C9: after NFA::new returned an NFA, its start and finish are reserved by it.
C9_StartFinishReserved ==
    (Returned("new") /\ ret = "Ok") =>
        /\ nfa[call.who].start \in Reserved(nfa[call.who])
        /\ nfa[call.who].finish \in Reserved(nfa[call.who])

====
